---- MODULE Spec2Model ----
(***************************************************************************)
(* Model of scripts/fetch_transcript.py: one run of the script, from the   *)
(* argument check in __main__ through get_transcript to process exit.      *)
(* The transcript provider (youtube_transcript_api) is the environment:    *)
(* each provider call either returns a value or raises, chosen with \E.    *)
(***************************************************************************)
EXTENDS Integers, Sequences, FiniteSets, TLC

VARIABLES argv, pc, video_id, transcript_list, transcript, data, formatted,
          stdout, exit_status, crashed, calls, raised, handled

vars == <<argv, pc, video_id, transcript_list, transcript, data, formatted,
          stdout, exit_status, crashed, calls, raised, handled>>

----------------------------------------------------------------------------
(* Bounds of the model *)

MaxArgs == 2
MaxTracks == 2
MaxEntries == 2

----------------------------------------------------------------------------
(* Values *)

ArgWords == {"abc123"}
Languages == {"en", "fr"}
Texts == {"Hello", "World"}
Durations == {2}
Starts == {0, 2}
\* type(i).__name__ of a fetched entry: a key-value mapping, or the
\* provider's attribute-bearing record class
Shapes == {"Snippet", "dict"}

\* Python's None, for transcript / video_id before they are assigned
None == [language_code |-> "None", is_generated |-> FALSE]

Tracks == [language_code : Languages, is_generated : BOOLEAN]

IsInjective(s) == \A i, j \in 1..Len(s) : s[i] = s[j] => i = j

\* the collections api.list can return: tracks in provider order, each
\* (language, kind) at most once
TrackLists ==
    UNION {{s \in [1..n -> Tracks] : IsInjective(s)} : n \in 0..MaxTracks}

Entries == [shape : Shapes, text : Texts, duration : Durations, start : Starts]

EntrySeqs == UNION {[1..n -> Entries] : n \in 0..MaxEntries}

\* sys.argv: the script name followed by at most MaxArgs arguments
ArgLists ==
    UNION {{<<"fetch_transcript.py">> \o s : s \in [1..n -> ArgWords]} : n \in 0..MaxArgs}

\* exceptions the provider raises; all are subclasses of Exception
ProviderFaults == {"TranscriptsDisabled", "NoTranscriptFound", "Exception"}

----------------------------------------------------------------------------
(* The provider's lookups on a track collection *)

HasTrack(tl, code, gen) ==
    \E k \in 1..Len(tl) : tl[k].language_code = code /\ tl[k].is_generated = gen

TheTrack(code, gen) == [language_code |-> code, is_generated |-> gen]

\* TranscriptList.find_transcript: manually created first, then generated
find_transcript(tl, code) ==
    IF HasTrack(tl, code, FALSE) THEN TheTrack(code, FALSE)
    ELSE IF HasTrack(tl, code, TRUE) THEN TheTrack(code, TRUE)
    ELSE None

\* TranscriptList.find_generated_transcript: generated tracks only
find_generated_transcript(tl, code) ==
    IF HasTrack(tl, code, TRUE) THEN TheTrack(code, TRUE) ELSE None

----------------------------------------------------------------------------
(* Pieces of get_transcript *)

ErrorExitStatus == 1

NoVideoIdMessage == "No video ID provided"

NoTranscriptMessage == "No transcript found"

\* str(e) of the exception that reached the outer handlers; subject is the
\* type name of the object the failed access was applied to, which Python
\* puts in the text of an AttributeError or TypeError ("" for a provider
\* failure)
Message(kind, subject) ==
    CASE kind = "TranscriptsDisabled" -> "Subtitles are disabled for this video"
      [] kind = "NoTranscriptFound" -> "No transcripts were found"
      [] kind = "AttributeError" -> "'" \o subject \o "' object has no attribute 'text'"
      [] kind = "TypeError" -> "'" \o subject \o "' object is not subscriptable"
      [] kind = "NoneAttributeError" -> "'NoneType' object has no attribute 'fetch'"
      [] OTHER -> "provider failure"

JsonArray(items) == [type |-> "array", items |-> items]

JsonError(msg) == [type |-> "object", error |-> msg]

MissingArgumentOffByOne(a) == Len(a) < 1

\* line 45: len(sys.argv) < 2
MissingArgument(a) == Len(a) < 2

CaughtByBareExceptNarrow(kind) == kind = "NoTranscriptFound"

\* lines 15 and 18: a bare except clause catches every exception
CaughtByBareExcept(kind) == TRUE

CaughtByOuterOnlyNotFound(kind) == kind = "NoTranscriptFound"

\* lines 37 and 40: except (TranscriptsDisabled, NoTranscriptFound), then
\* except Exception
CaughtByOuter(kind) ==
    \/ kind \in {"TranscriptsDisabled", "NoTranscriptFound"}
    \/ kind \in {"Exception", "AttributeError", "TypeError", "NoneAttributeError"}

Tier1LookupGenerated(tl) == find_generated_transcript(tl, "en")

\* line 14: transcript_list.find_transcript(['en'])
Tier1Lookup(tl) == find_transcript(tl, "en")

\* line 17: transcript_list.find_generated_transcript(['en'])
Tier2Lookup(tl) == find_generated_transcript(tl, "en")

FirstTrackLast(tl) == IF Len(tl) > 0 THEN tl[Len(tl)] ELSE None

\* lines 20-22: the first track of the iteration, None when it is empty
FirstTrack(tl) == IF Len(tl) > 0 THEN tl[1] ELSE None

TruthyAlways(t) == TRUE

\* line 24: if transcript
Truthy(t) == t # None

FetchTargetFirst(t, tl) == IF Len(tl) > 0 THEN tl[1] ELSE t

\* line 25: the track whose fetch() is called
FetchTarget(t, tl) == t

\* line 27: data and not isinstance(data[0], dict)
UsesAttributes(d) == Len(d) > 0 /\ d[1].shape # "dict"

FormatAttributesSwapped(i) ==
    [text |-> i.text, duration |-> i.start, offset |-> i.duration]

\* line 28: {"text": i.text, "duration": i.duration, "offset": i.start}
FormatAttributes(i) ==
    [text |-> i.text, duration |-> i.duration, offset |-> i.start]

\* line 30: {"text": i["text"], "duration": i["duration"], "offset": i["start"]}
FormatItems(i) ==
    [text |-> i.text, duration |-> i.duration, offset |-> i.start]

\* the exception the list comprehension of line 28 or 30 raises, if any
NormalizeFault(d) ==
    IF UsesAttributes(d)
    THEN IF \E k \in 1..Len(d) : d[k].shape = "dict"
         THEN "AttributeError" ELSE "none"
    ELSE IF \E k \in 1..Len(d) : d[k].shape # "dict"
         THEN "TypeError" ELSE "none"

\* the type name of the first entry on which that comprehension fails
NormalizeSubject(d) ==
    LET bad == {k \in 1..Len(d) :
                   IF UsesAttributes(d) THEN d[k].shape = "dict"
                                        ELSE d[k].shape # "dict"}
        first == CHOOSE k \in bad : \A j \in bad : k <= j
    IN  d[first].shape

\* lines 27-30
Formatted(d) ==
    IF UsesAttributes(d)
    THEN [k \in 1..Len(d) |-> FormatAttributes(d[k])]
    ELSE [k \in 1..Len(d) |-> FormatItems(d[k])]

Call(op, target) == [op |-> op, target |-> target]

Raise(site, kind) == [site |-> site, kind |-> kind]

\* print(json.dumps({"error": msg})); sys.exit(1)
ExitWithError(msg) ==
    /\ stdout' = Append(stdout, JsonError(msg))
    /\ exit_status' = ErrorExitStatus
    /\ crashed' = crashed
    /\ pc' = "done"

\* an exception leaves the outer try of get_transcript: lines 37-42, or an
\* unhandled fault (traceback, status 1, nothing on standard output)
OuterHandler(site, kind, subject) ==
    /\ handled' = site
    /\ IF CaughtByOuter(kind)
       THEN ExitWithError(Message(kind, subject))
       ELSE /\ crashed' = TRUE
            /\ exit_status' = 1
            /\ pc' = "done"
            /\ stdout' = stdout

----------------------------------------------------------------------------
(* Initial state and steps *)

Init ==
    /\ argv \in ArgLists
    /\ pc = "start"
    /\ video_id = "None"
    /\ transcript_list = <<>>
    /\ transcript = None
    /\ data = <<>>
    /\ formatted = <<>>
    /\ stdout = <<>>
    /\ exit_status = 0
    /\ crashed = FALSE
    /\ calls = <<>>
    /\ raised = <<>>
    /\ handled = "none"

\* lines 44-50: the argument check of __main__
Main ==
    /\ pc = "start"
    /\ IF MissingArgument(argv)
       THEN /\ ExitWithError(NoVideoIdMessage)
            /\ UNCHANGED <<video_id, raised>>
       ELSE IF Len(argv) < 2
       THEN \* sys.argv[1] raises IndexError outside any try
            /\ crashed' = TRUE
            /\ exit_status' = 1
            /\ pc' = "done"
            /\ raised' = Append(raised, Raise("argv", "IndexError"))
            /\ UNCHANGED <<video_id, stdout>>
       ELSE /\ video_id' = argv[2]
            /\ pc' = "list"
            /\ UNCHANGED <<stdout, exit_status, crashed, raised>>
    /\ UNCHANGED <<argv, transcript_list, transcript, data, formatted, calls, handled>>

\* lines 7-12: api.list(video_id); transcript = None
ListTracks ==
    /\ pc = "list"
    /\ calls' = Append(calls, Call("list", None))
    /\ \/ \E tl \in TrackLists :
            /\ transcript_list' = tl
            /\ transcript' = None
            /\ pc' = "tracks_listed"
            /\ UNCHANGED <<stdout, exit_status, crashed, raised, handled>>
       \/ \E kind \in ProviderFaults :
            /\ raised' = Append(raised, Raise("list", kind))
            /\ OuterHandler("list", kind, "")
            /\ UNCHANGED <<transcript_list, transcript>>
    /\ UNCHANGED <<argv, video_id, data, formatted>>

\* the faults a lookup can raise: "no transcript found" when nothing
\* matches, and any provider fault besides
LookupOutcomes(found) ==
    (IF found = None THEN {"NoTranscriptFound"} ELSE {"none"})
        \cup {"TranscriptsDisabled", "Exception"}

\* lines 13-15: the explicit-English lookup and its except clause
FindTranscript ==
    /\ pc = "tracks_listed"
    /\ calls' = Append(calls, Call("find_transcript", None))
    /\ \E outcome \in LookupOutcomes(Tier1Lookup(transcript_list)) :
         IF outcome = "none"
         THEN /\ transcript' = Tier1Lookup(transcript_list)
              /\ pc' = "track_selected"
              /\ UNCHANGED <<stdout, exit_status, crashed, raised, handled>>
         ELSE /\ raised' = Append(raised, Raise("find_transcript", outcome))
              /\ UNCHANGED transcript
              /\ IF CaughtByBareExcept(outcome)
                 THEN /\ pc' = "tier2"
                      /\ UNCHANGED <<stdout, exit_status, crashed, handled>>
                 ELSE OuterHandler("find_transcript", outcome, "")
    /\ UNCHANGED <<argv, video_id, transcript_list, data, formatted>>

\* lines 16-18: the generated-English lookup and its except clause
FindGeneratedTranscript ==
    /\ pc = "tier2"
    /\ calls' = Append(calls, Call("find_generated_transcript", None))
    /\ \E outcome \in LookupOutcomes(Tier2Lookup(transcript_list)) :
         IF outcome = "none"
         THEN /\ transcript' = Tier2Lookup(transcript_list)
              /\ pc' = "track_selected"
              /\ UNCHANGED <<stdout, exit_status, crashed, raised, handled>>
         ELSE /\ raised' = Append(raised, Raise("find_generated_transcript", outcome))
              /\ UNCHANGED transcript
              /\ IF CaughtByBareExcept(outcome)
                 THEN /\ pc' = "tier3"
                      /\ UNCHANGED <<stdout, exit_status, crashed, handled>>
                 ELSE OuterHandler("find_generated_transcript", outcome, "")
    /\ UNCHANGED <<argv, video_id, transcript_list, data, formatted>>

\* lines 19-22: take the first track of the iteration
TakeFirst ==
    /\ pc = "tier3"
    /\ calls' = Append(calls, Call("iterate", None))
    /\ \/ /\ transcript' = FirstTrack(transcript_list)
          /\ pc' = "track_selected"
          /\ UNCHANGED <<stdout, exit_status, crashed, raised, handled>>
       \/ \E kind \in ProviderFaults :
            /\ raised' = Append(raised, Raise("iterate", kind))
            /\ OuterHandler("iterate", kind, "")
            /\ UNCHANGED transcript
    /\ UNCHANGED <<argv, video_id, transcript_list, data, formatted>>

\* lines 24-25: if transcript: data = transcript.fetch()
Fetch ==
    /\ pc = "track_selected"
    /\ Truthy(transcript)
    /\ IF FetchTarget(transcript, transcript_list) = None
       THEN \* None has no fetch attribute
            /\ raised' = Append(raised, Raise("fetch", "NoneAttributeError"))
            /\ OuterHandler("fetch", "NoneAttributeError", "NoneType")
            /\ UNCHANGED <<data, calls>>
       ELSE /\ calls' = Append(calls, Call("fetch", FetchTarget(transcript, transcript_list)))
            /\ \/ \E d \in EntrySeqs :
                    /\ data' = d
                    /\ pc' = "entries_fetched"
                    /\ UNCHANGED <<stdout, exit_status, crashed, raised, handled>>
               \/ \E kind \in ProviderFaults :
                    /\ raised' = Append(raised, Raise("fetch", kind))
                    /\ OuterHandler("fetch", kind, "")
                    /\ UNCHANGED data
    /\ UNCHANGED <<argv, video_id, transcript_list, transcript, formatted>>

\* lines 33-35: no track was selected
NoTranscript ==
    /\ pc = "track_selected"
    /\ ~Truthy(transcript)
    /\ ExitWithError(NoTranscriptMessage)
    /\ UNCHANGED <<argv, video_id, transcript_list, transcript, data, formatted,
                   calls, raised, handled>>

\* lines 26-30: build the list of output records
Normalize ==
    /\ pc = "entries_fetched"
    /\ IF NormalizeFault(data) = "none"
       THEN /\ formatted' = Formatted(data)
            /\ pc' = "normalized"
            /\ UNCHANGED <<stdout, exit_status, crashed, raised, handled>>
       ELSE /\ raised' = Append(raised, Raise("normalize", NormalizeFault(data)))
            /\ OuterHandler("normalize", NormalizeFault(data), NormalizeSubject(data))
            /\ UNCHANGED formatted
    /\ UNCHANGED <<argv, video_id, transcript_list, transcript, data, calls>>

\* line 32: print(json.dumps(formatted)); the function returns and the
\* process exits with status 0
Emit ==
    /\ pc = "normalized"
    /\ stdout' = Append(stdout, JsonArray(formatted))
    /\ pc' = "done"
    /\ UNCHANGED <<argv, video_id, transcript_list, transcript, data, formatted,
                   exit_status, crashed, calls, raised, handled>>

Next ==
    \/ Main
    \/ ListTracks
    \/ FindTranscript
    \/ FindGeneratedTranscript
    \/ TakeFirst
    \/ Fetch
    \/ NoTranscript
    \/ Normalize
    \/ Emit

Spec == Init /\ [][Next]_vars

\* the interpreter keeps executing the script until the process exits
FairSpec == Spec /\ WF_vars(Next)

----------------------------------------------------------------------------
(* Observations on a run, used to state the properties *)

CallOps == {calls[k].op : k \in 1..Len(calls)}

RaisedAt(site) == \E k \in 1..Len(raised) : raised[k].site = site

\* the provider call was made and returned a value
Returned(op) == op \in CallOps /\ ~RaisedAt(op)

HasExplicitEnglish == HasTrack(transcript_list, "en", FALSE)

HasGeneratedEnglish == HasTrack(transcript_list, "en", TRUE)

ExplicitEnglish == TheTrack("en", FALSE)

GeneratedEnglish == TheTrack("en", TRUE)

\* the selection of lines 13-22 has produced its result
SelectionDone ==
    Returned("find_transcript") \/ Returned("find_generated_transcript")
        \/ Returned("iterate")

\* the two lookups fail only with "no transcript found"
LookupsFailOnlyNotFound ==
    \A k \in 1..Len(raised) :
        raised[k].site \in {"find_transcript", "find_generated_transcript"}
            => raised[k].kind = "NoTranscriptFound"

FetchTargets == {calls[k].target : k \in {j \in 1..Len(calls) : calls[j].op = "fetch"}}

ErrorWritten == Len(stdout) = 1 /\ stdout[1].type = "object"

ArrayWritten == Len(stdout) = 1 /\ stdout[1].type = "array"

\* the record the output must hold for one entry
ExpectedRecord(e) == [text |-> e.text, duration |-> e.duration, offset |-> e.start]

----------------------------------------------------------------------------
(* Properties *)

\* C1: when the collection holds an explicit English track and the
\* explicit-English lookup answers, the selected track is the explicit
\* English one, fetch is called on it and on no other track, and the
\* later tiers are never tried.
C1_ExplicitEnglishSelected ==
    (Returned("find_transcript") /\ HasExplicitEnglish) =>
        /\ transcript = ExplicitEnglish
        /\ FetchTargets \subseteq {ExplicitEnglish}
        /\ CallOps \cap {"find_generated_transcript", "iterate"} = {}
        /\ (pc = "done" => FetchTargets = {ExplicitEnglish})

C1_Witness ==
    /\ pc = "done"
    /\ ArrayWritten
    /\ HasExplicitEnglish /\ HasGeneratedEnglish
    /\ transcript_list[1] = GeneratedEnglish
    /\ FetchTargets = {ExplicitEnglish}

\* C2: with no explicit English track and lookups that fail only with "no
\* transcript found", the selection yields the generated English track if
\* there is one and otherwise the first track in provider order (nothing
\* for an empty collection); the third tier is not tried while an English
\* track exists.
C2_FallbackOrder ==
    (SelectionDone /\ LookupsFailOnlyNotFound /\ ~HasExplicitEnglish) =>
        /\ HasGeneratedEnglish =>
              transcript = GeneratedEnglish /\ "iterate" \notin CallOps
        /\ ~HasGeneratedEnglish =>
              /\ "iterate" \in CallOps
              /\ transcript =
                    IF transcript_list = <<>> THEN None ELSE transcript_list[1]
        /\ FetchTargets \subseteq {transcript}

C2_Witness ==
    /\ pc = "done"
    /\ ArrayWritten
    /\ LookupsFailOnlyNotFound
    /\ Len(transcript_list) = 2
    /\ ~HasExplicitEnglish /\ ~HasGeneratedEnglish
    /\ transcript_list[1] # transcript_list[2]
    /\ FetchTargets = {transcript_list[1]}

C3_Outcome ==
    /\ pc # "done" => stdout = <<>>
    /\ pc = "done" =>
          /\ ~crashed
          /\ Len(stdout) = 1
          /\ \/ stdout[1].type = "array" /\ exit_status = 0
                    /\ Returned("fetch") /\ Len(stdout[1].items) = Len(data)
             \/ stdout[1].type = "object" /\ exit_status # 0

\* C3: every run terminates, and it ends with exactly one value on
\* standard output: a complete array with exit status 0, or an error
\* object with a non-zero exit status; nothing is written earlier.
C3_ExactlyOneJsonValue == []C3_Outcome /\ <>(pc = "done")

C3_Witness ==
    /\ pc = "done"
    /\ ErrorWritten
    /\ exit_status = 1
    /\ RaisedAt("normalize")

\* C4: on success the output array has one element per fetched entry, in
\* entry order, and element k holds exactly the keys text, duration and
\* offset with entry k's text, duration and start.
C4_ArrayMirrorsEntries ==
    (pc = "done" /\ ArrayWritten) =>
        /\ Len(stdout[1].items) = Len(data)
        /\ \A k \in 1..Len(data) :
              /\ DOMAIN stdout[1].items[k] = {"text", "duration", "offset"}
              /\ stdout[1].items[k].text = data[k].text
              /\ stdout[1].items[k].duration = data[k].duration
              /\ stdout[1].items[k].offset = data[k].start

C4_Witness ==
    /\ pc = "done"
    /\ ArrayWritten
    /\ Len(data) = 2
    /\ data[1].shape # "dict"
    /\ data[1].text # data[2].text
    /\ data[1].duration # data[1].start
    /\ data[2].start # data[1].start

\* C5: whenever fetch returns entries, each an attribute-bearing record or
\* a key-value mapping, the run succeeds and writes their uniform records,
\* whatever shape each entry has.
C5_BothShapesSupported ==
    (pc = "done" /\ Returned("fetch")) =>
        /\ stdout = <<JsonArray([k \in 1..Len(data) |-> ExpectedRecord(data[k])])>>
        /\ exit_status = 0

\* C6 as stated: a "transcripts disabled" or "no transcript found" raised
\* anywhere in the run ends it with an error object and a non-zero status.
C6_AnyProviderRefusalIsAnError ==
    (pc = "done" /\ \E k \in 1..Len(raised) :
                        raised[k].kind \in {"TranscriptsDisabled", "NoTranscriptFound"}) =>
        ErrorWritten /\ exit_status # 0 /\ ~crashed

\* C6 (amended): a "transcripts disabled" or "no transcript found" raised
\* by listing the tracks, by the third tier's iteration or by fetch ends
\* the run with that failure's error object, a non-zero exit status and no
\* unhandled fault.
C6_RefusalOutsideLookupsIsAnError ==
    \A k \in 1..Len(raised) :
        (/\ raised[k].kind \in {"TranscriptsDisabled", "NoTranscriptFound"}
         /\ raised[k].site \in {"list", "iterate", "fetch"}) =>
            /\ pc = "done"
            /\ k = Len(raised)
            /\ stdout = <<JsonError(Message(raised[k].kind, ""))>>
            /\ exit_status # 0
            /\ ~crashed

C6_Witness ==
    /\ pc = "done"
    /\ Len(raised) = 3
    /\ raised[1].site = "find_transcript"
    /\ raised[3] = Raise("iterate", "TranscriptsDisabled")
    /\ ErrorWritten

\* C7: a run without a video identifier argument writes the error object
\* "No video ID provided", exits with a non-zero status and makes no
\* provider call.
C7_MissingArgument ==
    Len(argv) < 2 =>
        /\ calls = <<>>
        /\ pc = "done" =>
              /\ stdout = <<JsonError("No video ID provided")>>
              /\ exit_status # 0
              /\ ~crashed

C7_Witness ==
    /\ pc = "done"
    /\ Len(argv) = 1
    /\ ErrorWritten
    /\ exit_status = 1

\* C8: when the provider returns an empty track collection and all three
\* tiers yield no track, the run writes the error object "No transcript
\* found", exits with a non-zero status and never calls fetch.
C8_EmptyCollectionIsAnError ==
    (Returned("list") /\ transcript_list = <<>> /\ ~RaisedAt("iterate")) =>
        /\ "fetch" \notin CallOps
        /\ ~RaisedAt("fetch")
        /\ pc = "done" =>
              /\ stdout = <<JsonError("No transcript found")>>
              /\ exit_status # 0

C8_Witness ==
    /\ pc = "done"
    /\ Returned("list")
    /\ transcript_list = <<>>
    /\ Returned("iterate")
    /\ ErrorWritten

OpRank(op) ==
    CASE op = "list" -> 1
      [] op = "find_transcript" -> 2
      [] op = "find_generated_transcript" -> 3
      [] op = "iterate" -> 4
      [] op = "fetch" -> 5

C9_CallOrder ==
    /\ \A i, j \in 1..Len(calls) : i < j => OpRank(calls[i].op) < OpRank(calls[j].op)
    /\ calls # <<>> => calls[1].op = "list"
    /\ \A k \in 1..Len(calls) :
          calls[k].op = "fetch" =>
              /\ SelectionDone
              /\ calls[k].target = transcript
              /\ transcript # None
    /\ stdout # <<>> => pc = "done"
    /\ ArrayWritten => Returned("fetch") /\ stdout[1].items = formatted

\* C9: the provider calls of a run are in the order list, explicit lookup,
\* generated lookup, iteration, fetch, each at most once and list first;
\* fetch is called only after the selection and only on the selected
\* track; nothing is written before normalization has finished or a
\* failure has occurred; once something is written no further provider
\* call or write happens.
C9_LinearOrder ==
    []C9_CallOrder /\ [][stdout # <<>> => (calls' = calls /\ stdout' = stdout)]_vars

C9_Witness ==
    /\ pc = "done"
    /\ ArrayWritten
    /\ Len(calls) = 5
    /\ calls[5].op = "fetch"
    /\ Len(transcript_list) = 2
    /\ calls[5].target = transcript_list[1]

\* C10: a failure of the explicit-English or generated-English lookup, of
\* any kind, is never the failure that reaches the error output: the run
\* goes on to the next tier, and only failures of list, of the third
\* tier's iteration, of fetch or of normalization are reported.
C10_LookupFailuresFallThrough ==
    /\ handled \in {"none", "list", "iterate", "fetch", "normalize"}
    /\ ~crashed
    /\ RaisedAt("find_transcript") =>
          pc = "tier2" \/ "find_generated_transcript" \in CallOps
    /\ RaisedAt("find_generated_transcript") =>
          pc = "tier3" \/ "iterate" \in CallOps
    /\ (ErrorWritten /\ handled = "none") =>
          stdout[1].error \in {NoVideoIdMessage, NoTranscriptMessage}

C10_Witness ==
    /\ pc = "done"
    /\ ArrayWritten
    /\ Len(raised) = 2
    /\ raised[1] = Raise("find_transcript", "TranscriptsDisabled")
    /\ raised[2] = Raise("find_generated_transcript", "Exception")
    /\ transcript # None

====
